---- MODULE Spec2Model ----
(***************************************************************************)
(* A model of make_publications.py: the BibTeX-to-HTML publications        *)
(* builder.  A Python str is a sequence of one-character strings; a        *)
(* bibliography entry (a dict) is a function from field names to such      *)
(* sequences; a rendered HTML fragment is a sequence whose elements are    *)
(* the literal pieces of the code's f-strings and the characters of the    *)
(* field values spliced between them.                                      *)
(***************************************************************************)
EXTENDS Integers, Sequences, FiniteSets, TLC

VARIABLES
    entry,          \* clean_entry / get_bib_entry_as_html: the dict worked on
    raw,            \* the entry as it was before any clean_entry call
    once,           \* the entry as it was after the first clean_entry call
    passes,         \* how many times clean_entry has been applied to entry
    result,         \* what get_bib_entry_as_html returned or raised
    bib_database,   \* __main__: bib_database.entries, in file order
    perm,           \* __main__: position in bib_database of each sorted entry
    bib_entries,    \* __main__: the sorted list (its dicts are cleaned in place)
    f1,             \* the content of publications.html
    idx,            \* __main__: how many entries the for loop has written
    pc              \* position of the script (or of the function under test)

vars == <<entry, raw, once, passes, result, bib_database, perm, bib_entries, f1, idx, pc>>

(***************************************************************************)
(* Bounds of the model.                                                    *)
(***************************************************************************)
MaxFrags == 3       \* a raw field value is made of at most this many fragments
MaxPasses == 2      \* clean_entry is applied to an entry at most this many times
MaxEntries == 2     \* publications.bib holds at most this many entries

None == <<"None">>  \* Python's None, and the value of a variable not in use

(***************************************************************************)
(* Python str methods, on sequences of characters.                         *)
(***************************************************************************)
Whitespace == {" ", "\n", "\t"}

RECURSIVE lstrip(_)
lstrip(s) == IF s # <<>> /\ Head(s) \in Whitespace THEN lstrip(Tail(s)) ELSE s

RECURSIVE rstrip(_)
rstrip(s) ==
    IF s # <<>> /\ s[Len(s)] \in Whitespace
    THEN rstrip(SubSeq(s, 1, Len(s) - 1))
    ELSE s

strip(s) == rstrip(lstrip(s))

startswith(s, p) == Len(p) <= Len(s) /\ SubSeq(s, 1, Len(p)) = p

\* s.replace(old, new): leftmost non-overlapping occurrences, old non-empty
RECURSIVE replace(_, _, _)
replace(s, old, new) ==
    IF s = <<>> THEN <<>>
    ELSE IF startswith(s, old)
         THEN new \o replace(SubSeq(s, Len(old) + 1, Len(s)), old, new)
         ELSE <<Head(s)>> \o replace(Tail(s), old, new)

\* s.split(sep): the list of pieces, [""] for the empty string
RECURSIVE split(_, _)
split(s, sep) ==
    IF s = <<>> THEN << <<>> >>
    ELSE IF startswith(s, sep)
         THEN << <<>> >> \o split(SubSeq(s, Len(sep) + 1, Len(s)), sep)
         ELSE LET r == split(Tail(s), sep)
              IN  << <<Head(s)>> \o r[1] >> \o Tail(r)

\* sep.join(list)
RECURSIVE join(_, _)
join(sep, list) ==
    IF list = <<>> THEN <<>>
    ELSE IF Len(list) = 1 THEN list[1]
         ELSE list[1] \o sep \o join(sep, Tail(list))

\* s.find(sub) >= 0
contains(s, sub) ==
    \E p \in 1..(Len(s) - Len(sub) + 1) : SubSeq(s, p, p + Len(sub) - 1) = sub

Digits == {"0", "1", "2", "3", "4", "5", "6", "7", "8", "9"}

\* s.isdigit(), for ASCII text
isdigit(s) == s # <<>> /\ \A p \in 1..Len(s) : s[p] \in Digits

DigitValue(c) ==
    CASE c = "0" -> 0 [] c = "1" -> 1 [] c = "2" -> 2 [] c = "3" -> 3
      [] c = "4" -> 4 [] c = "5" -> 5 [] c = "6" -> 6 [] c = "7" -> 7
      [] c = "8" -> 8 [] c = "9" -> 9

\* int(s) for a string of digits
RECURSIVE int(_)
int(s) ==
    IF s = <<>> THEN 0
    ELSE 10 * int(SubSeq(s, 1, Len(s) - 1)) + DigitValue(s[Len(s)])

(***************************************************************************)
(* clean_entry                                                             *)
(***************************************************************************)
BS == "\\"      \* one backslash
DQ == "\""      \* one double quote

\* the replacements of the special characters, in the order the code makes them
ACCENTS == <<
    << <<BS, "A", "E">>,           <<"Æ">> >>,
    << <<BS, "$", BS, "$">>,       <<" ">> >>,
    << <<"~">>,                    <<" ">> >>,
    << <<BS, "O">>,                <<"Ø">> >>,
    << <<BS, "A", "A">>,           <<"Å">> >>,
    << <<BS, "a", "e">>,           <<"æ">> >>,
    << <<BS, "o">>,                <<"ø">> >>,
    << <<BS, DQ, "o">>,            <<"ö">> >>,
    << <<BS, DQ, "a">>,            <<"ä">> >>,
    << <<BS, "a", "a">>,           <<"å">> >>,
    << <<BS, "'", "a">>,           <<"&", "a", "a", "c", "u", "t", "e", ";">> >>,
    << <<BS, "'", "c">>,           <<"&", "c", "a", "c", "u", "t", "e", ";">> >>,
    << <<BS, "'", "o">>,           <<"&", "o", "a", "c", "u", "t", "e", ";">> >>,
    << <<BS, "'", "e">>,           <<"&", "e", "a", "c", "u", "t", "e", ";">> >>,
    << <<BS, "c", "{", "c", "}">>, <<"&", "c", "c", "e", "d", "i", "l", ";">> >>
>>

RECURSIVE replace_all(_, _)
replace_all(v, table) ==
    IF table = <<>> THEN v
    ELSE replace_all(replace(v, table[1][1], table[1][2]), Tail(table))

replace_special(v) == replace_all(v, ACCENTS)

strip_delimiters(v) == replace(replace(replace(v, <<"{">>, <<>>), <<"}">>, <<>>), <<DQ>>, <<>>)

remove_trailing_comma(v) ==
    IF Len(v) > 0 /\ v[Len(v)] = "," THEN SubSeq(v, 1, Len(v) - 1) ELSE v

NBSP == <<"&", "n", "b", "s", "p", ";">>

\* one author: the first blank-separated word is the surname when it has a comma
reverse_name(a) ==
    LET namearray == split(a, NBSP)
        surname == namearray[1]
    IN  IF contains(surname, <<",">>)
        THEN join(<<" ">>, Tail(namearray)) \o <<" ">> \o replace(surname, <<",">>, <<>>)
        ELSE join(<<" ">>, namearray)

AUTHOR_KEYS == {"author", "author_first", "author_corresponding"}

fix_author(v) ==
    LET split_authors == split(v, <<" ", "a", "n", "d", " ">>)
        authors == [i \in 1..Len(split_authors) |->
                        reverse_name(replace(strip(split_authors[i]), <<" ">>, NBSP))]
    IN  join(<<",", " ">>, authors)

NDASH == <<"&", "n", "d", "a", "s", "h", ";">>

\* fix_pages with the double hyphen made a single one, and nothing else
fix_pages_single_hyphen(v) == replace(v, <<"-", "-">>, <<"-">>)

fix_pages(v) == replace(replace(v, <<"-", "-">>, NDASH), <<"-">>, NDASH)

\* the body of the loop: the new value of field k whose value is v
clean_value(k, v) ==
    LET v1 == remove_trailing_comma(strip_delimiters(replace_special(strip(v))))
        v2 == IF k \in AUTHOR_KEYS THEN fix_author(v1) ELSE v1
    IN  IF k = "pages" THEN fix_pages(v2) ELSE v2

clean_entry(e) == [k \in DOMAIN e |-> clean_value(k, e[k])]

(***************************************************************************)
(* get_bib_entry_as_html.  A function that can raise returns a record:     *)
(* Return(v) for a value, Raise(k) for KeyError(k).                        *)
(***************************************************************************)
Return(v) == [ok |-> TRUE, val |-> v]
Raise(k) == [ok |-> FALSE, key |-> k]

has(e, k) == k \in DOMAIN e

span(cls, text) == <<"<span class=\"", cls, "\">">> \o text \o <<"</span>">>

PHDTHESIS == <<"p", "h", "d", "t", "h", "e", "s", "i", "s">>
BOOK == <<"b", "o", "o", "k">>
INBOOK == <<"i", "n", "b", "o", "o", "k">>
ARTICLE == <<"a", "r", "t", "i", "c", "l", "e">>
INPROCEEDINGS == <<"i", "n", "p", "r", "o", "c", "e", "e", "d", "i", "n", "g", "s">>
CONFERENCES == <<"c", "o", "n", "f", "e", "r", "e", "n", "c", "e", "s">>
TECHREPORT == <<"t", "e", "c", "h", "r", "e", "p", "o", "r", "t">>
MISC == <<"m", "i", "s", "c">>

\* format_title_or_chapter leaving out a missing publisher instead of raising
format_title_or_chapter_lenient(e) ==
    IF ~has(e, "title") THEN Raise("title")
    ELSE IF has(e, "chapter")
         THEN Return(<<"<span class=\"title\">", DQ>> \o e["chapter"] \o <<DQ, "</span>">>
                     \o <<"in: ">> \o e["title"] \o <<", ">>
                     \o (IF has(e, "publisher") THEN e["publisher"] ELSE <<>>))
         ELSE Return(<<"<span class=\"title\">", "<i>", DQ>> \o e["title"]
                     \o <<DQ, "</i>", "</span>">>)

format_title_or_chapter(e) ==
    IF has(e, "chapter")
    THEN IF ~has(e, "title") THEN Raise("title")
         ELSE IF ~has(e, "publisher") THEN Raise("publisher")
         ELSE Return(<<"<span class=\"title\">", DQ>> \o e["chapter"] \o <<DQ, "</span>">>
                     \o <<"in: ">> \o e["title"] \o <<", ">> \o e["publisher"])
    ELSE IF ~has(e, "title") THEN Raise("title")
         ELSE Return(<<"<span class=\"title\">", "<i>", DQ>> \o e["title"]
                     \o <<DQ, "</i>", "</span>">>)

\* format_publisher asking for the booktitle before the journal
format_publisher_booktitle_first(e) ==
    IF has(e, "booktitle") THEN Return(span("publisher", e["booktitle"]))
    ELSE IF has(e, "journal") THEN Return(span("publisher", e["journal"]))
    ELSE IF has(e, "eprint") THEN Return(span("publisher", e["eprint"]))
    ELSE IF e["ENTRYTYPE"] = PHDTHESIS /\ has(e, "school")
         THEN Return(<<"PhD thesis, ">> \o e["school"])
    ELSE IF e["ENTRYTYPE"] = PHDTHESIS THEN Raise("school")
    ELSE IF e["ENTRYTYPE"] = TECHREPORT /\ has(e, "number")
         THEN Return(<<"Tech. Report, ">> \o e["number"])
    ELSE IF e["ENTRYTYPE"] = TECHREPORT THEN Raise("number")
    ELSE IF e["ENTRYTYPE"] = BOOK /\ has(e, "publisher") THEN Return(e["publisher"])
    ELSE IF e["ENTRYTYPE"] = BOOK THEN Raise("publisher")
    ELSE Return(<<>>)

format_publisher(e) ==
    IF has(e, "journal") THEN Return(span("publisher", e["journal"]))
    ELSE IF has(e, "booktitle") THEN Return(span("publisher", e["booktitle"]))
    ELSE IF has(e, "eprint") THEN Return(span("publisher", e["eprint"]))
    ELSE IF e["ENTRYTYPE"] = PHDTHESIS
         THEN IF has(e, "school") THEN Return(<<"PhD thesis, ">> \o e["school"])
              ELSE Raise("school")
    ELSE IF e["ENTRYTYPE"] = TECHREPORT
         THEN IF has(e, "number") THEN Return(<<"Tech. Report, ">> \o e["number"])
              ELSE Raise("number")
    ELSE IF e["ENTRYTYPE"] = BOOK
         THEN IF has(e, "publisher") THEN Return(e["publisher"])
              ELSE Raise("publisher")
    ELSE Return(<<>>)

\* format_volume_pages_notes giving the number of a techreport too
format_volume_pages_notes_any_number(e) ==
    LET p1 == IF has(e, "volume") THEN << <<"vol. ">> \o e["volume"] >> ELSE <<>>
        p2 == IF has(e, "number") THEN << <<"no. ">> \o e["number"] >> ELSE <<>>
        p3 == IF has(e, "pages") THEN << <<"pp. ">> \o e["pages"] >> ELSE <<>>
        p4 == IF has(e, "month") THEN << e["month"] >> ELSE <<>>
    IN  join(<<", ">>, p1 \o p2 \o p3 \o p4)

format_volume_pages_notes(e) ==
    LET p1 == IF has(e, "volume") THEN << <<"vol. ">> \o e["volume"] >> ELSE <<>>
        p2 == IF has(e, "number") /\ e["ENTRYTYPE"] # TECHREPORT
              THEN << <<"no. ">> \o e["number"] >> ELSE <<>>
        p3 == IF has(e, "pages") THEN << <<"pp. ">> \o e["pages"] >> ELSE <<>>
        p4 == IF has(e, "month") THEN << e["month"] >> ELSE <<>>
    IN  join(<<", ">>, p1 \o p2 \o p3 \o p4)

\* get_link asking for www before url
get_link_www_first(e) ==
    IF has(e, "www") THEN e["www"]
    ELSE IF has(e, "url") /\ e["url"] # <<>> THEN e["url"]
    ELSE IF has(e, "doi") THEN <<"https://dx.doi.org/">> \o e["doi"]
    ELSE IF has(e, "hal_id") THEN <<"https://hal.archives-ouvertes.fr/">> \o e["hal_id"]
    ELSE None

get_link(e) ==
    IF has(e, "url") /\ e["url"] # <<>> THEN e["url"]
    ELSE IF has(e, "www") THEN e["www"]
    ELSE IF has(e, "doi") THEN <<"https://dx.doi.org/">> \o e["doi"]
    ELSE IF has(e, "hal_id") THEN <<"https://hal.archives-ouvertes.fr/">> \o e["hal_id"]
    ELSE None

\* Python truth of a str or None
truthy(x) == x # None /\ x # <<>>

LI_OPEN == "\n<li>\n"
LI_CLOSE == "\n</li>\n"

get_bib_entry_as_html(e) ==
    LET author_html == IF has(e, "author")
                       THEN span("author", e["author"] \o <<",">>) \o <<"\n">>
                       ELSE <<>>
        title == format_title_or_chapter(e)
        publisher == format_publisher(e)
        vp == format_volume_pages_notes(e)
        link == get_link(e)
    IN  IF ~title.ok THEN [kind |-> "KeyError", key |-> title.key]
        ELSE IF ~publisher.ok THEN [kind |-> "KeyError", key |-> publisher.key]
        ELSE IF ~has(e, "year") THEN [kind |-> "KeyError", key |-> "year"]
        ELSE LET body == author_html
                         \o title.val \o <<",\n">>
                         \o (IF truthy(publisher.val) THEN publisher.val ELSE <<>>)
                         \o (IF truthy(vp) THEN <<", ">> \o vp ELSE <<>>)
                         \o <<", ">> \o span("year", e["year"]) \o <<".\n">>
                 out == IF truthy(link)
                        THEN <<LI_OPEN>> \o <<"<a href=\"">> \o link \o <<"\">">>
                             \o body \o <<"</a>">>
                        ELSE <<LI_OPEN>> \o body
             IN  [kind |-> "ok",
                  html |-> out \o <<LI_CLOSE, "<br>\n">>,
                  publisher_html |-> publisher.val,
                  vp |-> vp,
                  link |-> link]

(***************************************************************************)
(* sort_key and sorted().  float("inf") is Inf, an int n is Fin(n).        *)
(***************************************************************************)
Inf == [inf |-> TRUE]
Fin(n) == [inf |-> FALSE, n |-> n]

\* a < b on numbers
num_lt(a, b) == ~a.inf /\ (b.inf \/ a.n < b.n)

\* k1 < k2 on pairs, as Python compares tuples
tuple_lt(k1, k2) == num_lt(k1[1], k2[1]) \/ (k1[1] = k2[1] /\ num_lt(k1[2], k2[2]))

BIBTYPE_PRIORITY == <<PHDTHESIS, BOOK, INBOOK, ARTICLE, INPROCEEDINGS, CONFERENCES>>

\* BIBTYPE_PRIORITY.index(t), for t in the list
index(t) == (CHOOSE p \in 1..Len(BIBTYPE_PRIORITY) : BIBTYPE_PRIORITY[p] = t) - 1

\* type_val without the priority list: every type counts as unknown
type_val_unranked(e) == Inf

type_val(e) ==
    IF \E p \in 1..Len(BIBTYPE_PRIORITY) : BIBTYPE_PRIORITY[p] = e["ENTRYTYPE"]
    THEN Fin(index(e["ENTRYTYPE"]))
    ELSE Inf

year_val(e) == IF isdigit(e["year"]) THEN Fin(int(e["year"])) ELSE Inf

sort_key(e) ==
    IF ~has(e, "year") THEN Raise("year")
    ELSE Return(<<year_val(e), type_val(e)>>)

\* sorted() is stable: an element goes after every element that is not greater
RECURSIVE insert(_, _, _)
insert(order, i, keys) ==
    IF order = <<>> THEN <<i>>
    ELSE IF tuple_lt(keys[i], keys[Head(order)]) THEN <<i>> \o order
         ELSE <<Head(order)>> \o insert(Tail(order), i, keys)

\* the positions 1..n of a list in the order sorted(list, key) puts them
RECURSIVE sorted(_, _)
sorted(n, keys) == IF n = 0 THEN <<>> ELSE insert(sorted(n - 1, keys), n, keys)

(***************************************************************************)
(* Inputs.                                                                 *)
(***************************************************************************)
\* pieces of raw BibTeX text a field value is made of
FRAGMENTS == {
    <<BS, "'">>, <<"e">>, <<"{">>, <<"}">>, <<",">>, <<" ">>, <<"-">>,
    <<" ", "a", "n", "d", " ">>,
    <<"S", "m", "i", "t", "h", ",", " ", "J", "o", "h", "n">>,
    <<"D", "o", "e", ",", " ", "J", "a", "n", "e">>,
    <<"v", "a", "n", " ", "B", "e", "e", "k", ",", " ", "P", "e", "t", "e", "r">>,
    <<"D", "o", "e">>,
    <<"~">>
}

\* the texts made of at most n fragments
RECURSIVE Texts(_)
Texts(n) ==
    IF n = 0 THEN {<<>>}
    ELSE LET shorter == Texts(n - 1)
         IN  shorter \cup {t \o f : t \in shorter, f \in FRAGMENTS}

CLEAN_KEYS == {"author", "pages", "title"}

\* the value a field has when the renderer is given it
VALUE ==
    [f \in {"author", "title", "chapter", "publisher", "journal", "booktitle",
            "eprint", "school", "number", "volume", "pages", "month", "year",
            "url", "www", "doi", "hal_id"} |->
        CASE f = "author" -> <<"A">>
          [] f = "title" -> <<"T">>
          [] f = "chapter" -> <<"C">>
          [] f = "publisher" -> <<"P">>
          [] f = "journal" -> <<"J">>
          [] f = "booktitle" -> <<"B">>
          [] f = "eprint" -> <<"E">>
          [] f = "school" -> <<"S">>
          [] f = "number" -> <<"7">>
          [] f = "volume" -> <<"3">>
          [] f = "pages" -> <<"1">>
          [] f = "month" -> <<"M", "a", "y">>
          [] f = "year" -> <<"2", "0", "2", "0">>
          [] f = "url" -> <<"u">>
          [] f = "www" -> <<"w">>
          [] f = "doi" -> <<"d">>
          [] f = "hal_id" -> <<"h">>]

RENDER_TYPES == {PHDTHESIS, TECHREPORT, BOOK, ARTICLE}
RENDER_FIELDS == {"author", "title", "chapter", "publisher", "journal", "booktitle",
                  "eprint", "school", "number", "volume", "pages", "month", "year", "url"}
LINK_FIELDS == {"url", "www", "doi", "hal_id"}

\* entries with every combination of present and absent fields
RenderEntries ==
    {[f \in present \cup {"ENTRYTYPE"} |-> IF f = "ENTRYTYPE" THEN t ELSE VALUE[f]] :
        present \in SUBSET RENDER_FIELDS, t \in RENDER_TYPES}

\* articles with every combination of absent, empty and non-empty link fields
LinkEntries ==
    {[f \in DOMAIN links \cup {"ENTRYTYPE", "title", "journal", "year"} |->
        IF f = "ENTRYTYPE" THEN ARTICLE
        ELSE IF f \in DOMAIN links THEN (IF links[f] THEN VALUE[f] ELSE <<>>)
        ELSE VALUE[f]] :
        links \in UNION {[present -> {TRUE, FALSE}] : present \in SUBSET LINK_FIELDS}}

YEARS == {
    <<"9", "0", "0">>,
    <<"2", "0", "2", "0">>,
    <<"{", "2", "0", "1", "9", "}">>
}
MAIN_TYPES == {PHDTHESIS, ARTICLE, MISC}

\* the entries publications.bib can hold: the year and the title may be missing
BibEntries ==
    {[f \in {"ENTRYTYPE", "year", "title"} |->
        IF f = "ENTRYTYPE" THEN t ELSE IF f = "year" THEN y ELSE VALUE[f]] :
        t \in MAIN_TYPES, y \in YEARS}
    \cup {[f \in {"ENTRYTYPE", "year"} |-> IF f = "ENTRYTYPE" THEN t ELSE y] :
        t \in MAIN_TYPES, y \in YEARS}
    \cup {[f \in {"ENTRYTYPE", "title"} |-> IF f = "ENTRYTYPE" THEN t ELSE VALUE[f]] :
        t \in MAIN_TYPES}
    \cup {[f \in {"ENTRYTYPE"} |-> t] : t \in MAIN_TYPES}

HTML_PRELUDE == "<!doctype html> ... <ul class=\"list-unstyled\">"
HTML_CLOSING == "</ul></div></div></body></html>"

(***************************************************************************)
(* clean_entry under test: applied to one entry, again and again.          *)
(***************************************************************************)
InitClean ==
    /\ \E k \in CLEAN_KEYS, v \in Texts(MaxFrags) : entry = (k :> v)
    /\ raw = entry
    /\ once = None
    /\ passes = 0
    /\ result = None
    /\ bib_database = None
    /\ perm = None
    /\ bib_entries = None
    /\ f1 = None
    /\ idx = 0
    /\ pc = "clean"

Clean ==
    /\ pc = "clean"
    /\ passes < MaxPasses
    /\ entry' = clean_entry(entry)
    /\ once' = IF passes = 0 THEN entry' ELSE once
    /\ passes' = passes + 1
    /\ UNCHANGED <<raw, result, bib_database, perm, bib_entries, f1, idx, pc>>

NextClean == Clean

SpecClean == InitClean /\ [][NextClean]_vars

(***************************************************************************)
(* get_bib_entry_as_html under test: called on one entry.                  *)
(***************************************************************************)
InitRender ==
    /\ entry \in RenderEntries \cup LinkEntries
    /\ raw = None
    /\ once = None
    /\ passes = 0
    /\ result = None
    /\ bib_database = None
    /\ perm = None
    /\ bib_entries = None
    /\ f1 = None
    /\ idx = 0
    /\ pc = "call"

Render ==
    /\ pc = "call"
    /\ result' = get_bib_entry_as_html(entry)
    /\ pc' = "returned"
    /\ UNCHANGED <<entry, raw, once, passes, bib_database, perm, bib_entries, f1, idx>>

NextRender == Render

SpecRender == InitRender /\ [][NextRender]_vars

(***************************************************************************)
(* __main__: the script, from the parsed bibliography to the written file. *)
(* f1 = None is publications.html as it was before the run; once opened    *)
(* it is the list of what has been written to it.                          *)
(***************************************************************************)
Init ==
    /\ bib_database \in UNION {[1..n -> BibEntries] : n \in 0..MaxEntries}
    /\ perm = None
    /\ bib_entries = None
    /\ f1 = None
    /\ idx = 0
    /\ pc = "parsed"
    /\ entry = None
    /\ raw = None
    /\ once = None
    /\ passes = 0
    /\ result = None

\* bib_entries = sorted(bib_database.entries, key=sort_key)
Sort ==
    /\ pc = "parsed"
    /\ LET n == Len(bib_database)
           keys == [i \in 1..n |-> sort_key(bib_database[i])]
       IN  IF \E i \in 1..n : ~keys[i].ok
           THEN /\ pc' = "KeyError"
                /\ UNCHANGED <<perm, bib_entries>>
           ELSE /\ perm' = sorted(n, [i \in 1..n |-> keys[i].val])
                /\ bib_entries' = [i \in 1..n |-> bib_database[perm'[i]]]
                /\ pc' = "sorted"
    /\ UNCHANGED <<entry, raw, once, passes, result, bib_database, f1, idx>>

\* with open("publications.html", "w") as f1: f1.write(html_prelude)
Open ==
    /\ pc = "sorted"
    /\ f1' = <<HTML_PRELUDE>>
    /\ idx' = 0
    /\ pc' = "loop"
    /\ UNCHANGED <<entry, raw, once, passes, result, bib_database, perm, bib_entries>>

\* one turn of the for loop: clean the entry in place, render it, write it
WriteEntry ==
    /\ pc = "loop"
    /\ idx < Len(bib_entries)
    /\ LET cleaned == clean_entry(bib_entries[idx + 1])
           html == get_bib_entry_as_html(cleaned)
       IN  /\ bib_entries' = [bib_entries EXCEPT ![idx + 1] = cleaned]
           /\ result' = html
           /\ IF html.kind = "ok"
              THEN /\ f1' = Append(f1, html.html)
                   /\ idx' = idx + 1
                   /\ pc' = "loop"
              ELSE /\ pc' = "KeyError"
                   /\ UNCHANGED <<f1, idx>>
    /\ UNCHANGED <<entry, raw, once, passes, bib_database, perm>>

\* f1.write("</ul></div></div></body></html>") and the end of the with block
Close ==
    /\ pc = "loop"
    /\ idx = Len(bib_entries)
    /\ f1' = Append(f1, HTML_CLOSING)
    /\ pc' = "done"
    /\ UNCHANGED <<entry, raw, once, passes, result, bib_database, perm, bib_entries, idx>>

Next == Sort \/ Open \/ WriteEntry \/ Close

Spec == Init /\ [][Next]_vars

(***************************************************************************)
(* Properties of clean_entry (SpecClean).                                  *)
(***************************************************************************)
\* a value no step of the cleaning pass applies to, except the pages step:
\* no blank at either end, none of the characters the replacements look for,
\* no trailing comma and, for an author field, a single author whose first
\* word has no comma
Settled(k, v) ==
    /\ strip(v) = v
    /\ \A p \in 1..Len(v) : v[p] \notin {BS, "~", "{", "}", DQ}
    /\ remove_trailing_comma(v) = v
    /\ k \in AUTHOR_KEYS =>
        /\ ~contains(v, <<" ", "a", "n", "d", " ">>)
        /\ ~contains(v, NBSP)
        /\ ~contains(split(v, <<" ">>)[1], <<",">>)

\* C1 as claimed: clean_entry is idempotent, a second application changes no
\* field of any entry.
C1_Idempotent == passes >= 2 => entry = once

\* C1 as amended: a second (and any later) application of clean_entry leaves
\* unchanged every field whose once-cleaned value is settled; what accent
\* replacement and pages hyphen normalisation put there is never changed again.
C1_IdempotentOnSettled ==
    passes >= 1 =>
        \A k \in DOMAIN once : Settled(k, once[k]) => entry[k] = once[k]

\* C1's case: the first pass rewrote a pages or title value (accents, hyphens)
\* into a settled one and the second pass has run.
C1_Witness ==
    /\ passes >= 2
    /\ \E k \in DOMAIN once :
        /\ k \in {"pages", "title"}
        /\ Settled(k, once[k])
        /\ contains(once[k], <<"&">>)
        /\ entry[k] = once[k]

\* the authors as the claim writes them
NAMES == {
    <<"S", "m", "i", "t", "h", ",", " ", "J", "o", "h", "n">>,
    <<"D", "o", "e", ",", " ", "J", "a", "n", "e">>,
    <<"v", "a", "n", " ", "B", "e", "e", "k", ",", " ", "P", "e", "t", "e", "r">>,
    <<"D", "o", "e">>
}

\* "Surname, First" as "First Surname", anything else as it is
FirstThenSurname(a) ==
    LET parts == split(a, <<",", " ">>)
    IN  IF Len(parts) = 2 THEN parts[2] \o <<" ">> \o parts[1] ELSE a

\* C3: clean_entry rewrites an author field made of "Surname, First" and plain
\* names joined by " and " into the names, each as "First Surname" whatever the
\* number of words of the surname, joined by ", " in their order.
C3_AuthorsReordered ==
    (passes = 1 /\ "author" \in DOMAIN raw) =>
        LET given == split(raw["author"], <<" ", "a", "n", "d", " ">>)
        IN  (\A i \in 1..Len(given) : given[i] \in NAMES) =>
                entry["author"] =
                    join(<<",", " ">>, [i \in 1..Len(given) |-> FirstThenSurname(given[i])])

(***************************************************************************)
(* Properties of get_bib_entry_as_html (SpecRender).                       *)
(***************************************************************************)
Rendered == pc = "returned" /\ result.kind = "ok"

\* the <a href="link"> ... </a> pair, opened right after <li>, closed before </li>
AnchoredAt(html, link) ==
    /\ startswith(html, <<LI_OPEN, "<a href=\"">> \o link \o <<"\">">>)
    /\ html[Len(html) - 2] = "</a>"
    /\ html[Len(html) - 1] = LI_CLOSE

NoAnchor(html) == \A p \in 1..Len(html) : html[p] \notin {"<a href=\"", "</a>"}

\* C4 as claimed: the first of url, www, doi, hal_id that is present gives the
\* href, and the entry is wrapped in an anchor exactly when one is present.
C4_FirstPresentWins ==
    Rendered =>
        LET link == IF has(entry, "url") THEN entry["url"]
                    ELSE IF has(entry, "www") THEN entry["www"]
                    ELSE IF has(entry, "doi")
                         THEN <<"https://dx.doi.org/">> \o entry["doi"]
                    ELSE IF has(entry, "hal_id")
                         THEN <<"https://hal.archives-ouvertes.fr/">> \o entry["hal_id"]
                    ELSE None
        IN  IF link = None THEN NoAnchor(result.html)
            ELSE AnchoredAt(result.html, link)

\* C4 as amended: an empty url counts as absent; the first of non-empty url,
\* www, doi, hal_id that is present gives the link, and the entry is wrapped in
\* an anchor exactly when that link is a non-empty string.
C4_FirstNonEmptyUrlWins ==
    Rendered =>
        LET url_given == has(entry, "url") /\ entry["url"] # <<>>
            link == IF url_given THEN entry["url"]
                    ELSE IF has(entry, "www") THEN entry["www"]
                    ELSE IF has(entry, "doi")
                         THEN <<"https://dx.doi.org/">> \o entry["doi"]
                    ELSE IF has(entry, "hal_id")
                         THEN <<"https://hal.archives-ouvertes.fr/">> \o entry["hal_id"]
                    ELSE None
        IN  IF link = None \/ link = <<>> THEN NoAnchor(result.html)
            ELSE AnchoredAt(result.html, link)

\* C4's case: an entry with both a url and a doi is rendered around its url.
C4_Witness ==
    /\ Rendered
    /\ has(entry, "url") /\ entry["url"] # <<>>
    /\ has(entry, "doi")
    /\ AnchoredAt(result.html, entry["url"])

NoVenue(e) == ~has(e, "journal") /\ ~has(e, "booktitle") /\ ~has(e, "eprint")

\* C5 as claimed: a techreport with a number renders "Tech. Report, <number>"
\* whatever its other fields, and no "no. <number>" in the summary line.
C5_TechReport ==
    (Rendered /\ entry["ENTRYTYPE"] = TECHREPORT /\ has(entry, "number")) =>
        /\ contains(result.html, <<"Tech. Report, ">> \o entry["number"])
        /\ ~contains(result.html, <<"no. ">>)

\* C5 as amended: a techreport with a number and no journal, booktitle or
\* eprint renders "Tech. Report, <number>"; no techreport renders "no. <number>".
C5_TechReportWithoutVenue ==
    (Rendered /\ entry["ENTRYTYPE"] = TECHREPORT /\ has(entry, "number")) =>
        /\ NoVenue(entry) => contains(result.html, <<"Tech. Report, ">> \o entry["number"])
        /\ ~contains(result.html, <<"no. ">>)
        /\ ~contains(result.vp, <<"no. ">>)

\* C5's case: a techreport with a number and a volume, so that the summary
\* line is there and the number is not in it.
C5_Witness ==
    /\ Rendered
    /\ entry["ENTRYTYPE"] = TECHREPORT
    /\ has(entry, "number") /\ has(entry, "volume") /\ NoVenue(entry)
    /\ contains(result.html, <<"Tech. Report, ">> \o entry["number"])
    /\ result.vp # <<>>

\* the candidates for the publisher-or-venue line, highest precedence first:
\* whether each applies to the entry and what it renders
VenueApplies(e) == <<
    has(e, "journal"), has(e, "booktitle"), has(e, "eprint"),
    e["ENTRYTYPE"] = PHDTHESIS, e["ENTRYTYPE"] = TECHREPORT, e["ENTRYTYPE"] = BOOK >>

VenueLine(e, c) ==
    CASE c = 1 -> span("publisher", e["journal"])
      [] c = 2 -> span("publisher", e["booktitle"])
      [] c = 3 -> span("publisher", e["eprint"])
      [] c = 4 -> <<"PhD thesis, ">> \o e["school"]
      [] c = 5 -> <<"Tech. Report, ">> \o e["number"]
      [] c = 6 -> e["publisher"]

\* C6: the publisher-or-venue line of a rendered entry is that of the first
\* candidate that applies, in the order journal, booktitle, eprint, thesis
\* school, tech-report number, book publisher; it is empty when none applies.
C6_VenuePrecedence ==
    Rendered =>
        LET applies == VenueApplies(entry)
            first == {c \in 1..6 : applies[c] /\ \A d \in 1..(c - 1) : ~applies[d]}
        IN  /\ first = {} => result.publisher_html = <<>>
            /\ \A c \in first :
                /\ result.publisher_html = VenueLine(entry, c)
                /\ contains(result.html, <<",\n">> \o VenueLine(entry, c) \o <<", ">>)

\* C6's case: a thesis with a school that also has a journal and a booktitle
\* is rendered with the journal.
C6_Witness ==
    /\ Rendered
    /\ entry["ENTRYTYPE"] = PHDTHESIS
    /\ has(entry, "school") /\ has(entry, "booktitle") /\ has(entry, "journal")
    /\ result.publisher_html = span("publisher", entry["journal"])

SEPARATORS == {", ", ",\n"}

\* C7: the output has no clause for a missing volume or pages field and, for
\* every combination of present and absent optional fields, no empty clause:
\* no two separators with nothing between them.
C7_NoEmptyClause ==
    Rendered =>
        /\ ~has(entry, "volume") => ~contains(result.html, <<"vol. ">>)
        /\ ~has(entry, "pages") => ~contains(result.html, <<"pp. ">>)
        /\ \A p \in 1..(Len(result.html) - 1) :
            ~(result.html[p] \in SEPARATORS /\ result.html[p + 1] \in SEPARATORS)

Required(e) ==
    {"title", "year"}
    \cup (IF has(e, "chapter") THEN {"publisher"} ELSE {})
    \cup (IF NoVenue(e) /\ e["ENTRYTYPE"] = PHDTHESIS THEN {"school"} ELSE {})
    \cup (IF NoVenue(e) /\ e["ENTRYTYPE"] = TECHREPORT THEN {"number"} ELSE {})
    \cup (IF NoVenue(e) /\ e["ENTRYTYPE"] = BOOK THEN {"publisher"} ELSE {})

Numeric(e) == isdigit(e["year"])
Listed(e) == \E p \in 1..Len(BIBTYPE_PRIORITY) : BIBTYPE_PRIORITY[p] = e["ENTRYTYPE"]
Rank(e) == CHOOSE p \in 1..Len(BIBTYPE_PRIORITY) : BIBTYPE_PRIORITY[p] = e["ENTRYTYPE"]
SameYear(a, b) ==
    \/ Numeric(a) /\ Numeric(b) /\ int(a["year"]) = int(b["year"])
    \/ a["year"] = b["year"]

\* the documented priority: a has to come before b
ComesBefore(a, b) ==
    \/ Numeric(a) /\ Numeric(b) /\ int(a["year"]) < int(b["year"])
    \/ Numeric(a) /\ ~Numeric(b)
    \/ SameYear(a, b) /\ Listed(a) /\ Listed(b) /\ Rank(a) < Rank(b)
    \/ SameYear(a, b) /\ Listed(a) /\ ~Listed(b)

\* C2: the sorted list holds the parsed entries, each once, in the documented
\* priority of the values sort_key was given (smaller numeric year first, a
\* non-numeric year last, within a year by the priority list, unknown types
\* last), and the list items are written in that order.
C2_SortedByKey ==
    pc \in {"sorted", "loop", "done"} =>
        /\ Len(perm) = Len(bib_database)
        /\ {perm[i] : i \in 1..Len(perm)} = 1..Len(bib_database)
        /\ \A i, j \in 1..Len(perm) :
            i < j => ~ComesBefore(bib_database[perm[j]], bib_database[perm[i]])
        /\ pc = "done" =>
            \A i \in 1..Len(perm) :
                f1[i + 1] = get_bib_entry_as_html(clean_entry(bib_database[perm[i]])).html

\* C2's case: the file was written and sorting had to swap two entries.
C2_Witness ==
    /\ pc = "done"
    /\ Len(perm) = 2
    /\ perm = <<2, 1>>
    /\ ComesBefore(bib_database[2], bib_database[1])

\* C9: every entry is cleaned before its sort key is computed, so the written
\* list is in the order of the cleaned entries' keys.
C9_SortedAfterCleaning ==
    pc = "done" =>
        \A i, j \in 1..Len(bib_entries) :
            i < j => ~tuple_lt(sort_key(bib_entries[j]).val, sort_key(bib_entries[i]).val)

\* C10: when the script has ended, with an error or not, publications.html is
\* either as it was before the run or complete: the prelude, one list item
\* per entry and the closing tags.
C10_NeverPartial ==
    pc \in {"KeyError", "done"} =>
        \/ f1 = None
        \/ /\ Len(f1) = Len(bib_database) + 2
           /\ f1[1] = HTML_PRELUDE
           /\ f1[Len(f1)] = HTML_CLOSING

====
